---- MODULE Spec2Model ----
\* chaifi: a terminal tool that edits the generated section of
\* wpa_supplicant.conf.  Strings are sequences of one-character strings, the
\* config file is its sequence of bytes.
EXTENDS Integers, Sequences, FiniteSets, TLC

\* ---------------------------------------------------------------- bounds

\* longest password typed in one visit of the password prompt
MaxPwLen == 2
\* number of program runs on the same file (SpecCycle)
MaxRuns == 3
\* longest ssid / psk of the codec inputs (SpecCodec)
MaxStrLen == 2
\* most records after the header row of a scan output (SpecScan)
MaxRecords == 2
\* longest value given to unescapeString (SpecUnescape)
MaxValLen == 4

\* ------------------------------------------------------------ characters

LF == "\n"
CR == "\r"
QUOTE == "\""
BSLASH == "\\"
SPACE == " "
EQUALS == "="

\* ------------------------------------------------------- string literals

chaifiMarker == <<"#", " ", "C", "H", "A", "I", "F", "I", ":", " ", "D", "O", " ", "N", "O", "T", " ", "E", "D", "I", "T", " ", "B", "E", "L", "O", "W", " ", "T", "H", "I", "S", " ", "L", "I", "N", "E">>
OpenLine == <<"n", "e", "t", "w", "o", "r", "k", "=", "{">>
CloseLine == <<"}">>
SsidPrefix == <<" ", " ", " ", " ", "s", "s", "i", "d", "=", "\"">>
KeyMgmtPrefix == <<" ", " ", " ", " ", "k", "e", "y", "_", "m", "g", "m", "t", "=">>
PskPrefix == <<" ", " ", " ", " ", "p", "s", "k", "=", "\"">>
NONE == <<"N", "O", "N", "E">>
WPAPSK == <<"W", "P", "A", "-", "P", "S", "K">>
ssidKey == <<"s", "s", "i", "d">>
pskKey == <<"p", "s", "k">>
keyMgmtKey == <<"k", "e", "y", "_", "m", "g", "m", "t">>

\* -------------------------------------------------------- string helpers

\* strings.ReplaceAll(val, old, new) for a one-byte old
RECURSIVE ReplaceAll(_, _, _)
ReplaceAll(val, old, new) ==
    IF val = <<>> THEN <<>>
    ELSE (IF Head(val) = old THEN new ELSE <<Head(val)>>)
             \o ReplaceAll(Tail(val), old, new)

\* strings.Index(line, prefix) == 0
HasPrefix(line, prefix) ==
    /\ Len(line) >= Len(prefix)
    /\ SubSeq(line, 1, Len(prefix)) = prefix

\* strings.Trim(line, " ")
RECURSIVE TrimLeft(_)
TrimLeft(s) == IF s # <<>> /\ Head(s) = SPACE THEN TrimLeft(Tail(s)) ELSE s

RECURSIVE TrimRight(_)
TrimRight(s) ==
    IF s # <<>> /\ s[Len(s)] = SPACE THEN TrimRight(SubSeq(s, 1, Len(s) - 1)) ELSE s

Trim(s) == TrimRight(TrimLeft(s))

\* position of the first byte c in s, 0 when there is none
IndexByte(s, c) ==
    IF \E i \in 1..Len(s) : s[i] = c
    THEN CHOOSE i \in 1..Len(s) : s[i] = c /\ \A j \in 1..(i - 1) : s[j] # c
    ELSE 0

\* ------------------------------------------------------------------ codec

Network(ssid, psk, security) == [ssid |-> ssid, psk |-> psk, security |-> security]

\* the zero value &Network{}
ZeroNetwork == Network(<<>>, <<>>, FALSE)

\* escapeString with its two replacements in the other order: the
\* backslash put before a double quote is doubled as well
escapeString_quotesFirst(val) ==
    LET escaped == ReplaceAll(val, QUOTE, <<BSLASH, QUOTE>>)
    IN  ReplaceAll(escaped, BSLASH, <<BSLASH, BSLASH>>)

escapeString(val) ==
    LET escaped == ReplaceAll(val, BSLASH, <<BSLASH, BSLASH>>)
    IN  ReplaceAll(escaped, QUOTE, <<BSLASH, QUOTE>>)

\* unescapeString that leaves the quotes around the value
unescapeString_noStrip(val) ==
    LET l == Len(val) IN
    IF val # <<>> /\ val[1] = QUOTE /\ val[l] # QUOTE
    THEN [value |-> val, err |-> TRUE, panic |-> FALSE]
    ELSE [value |-> val, err |-> FALSE, panic |-> FALSE]

\* value, err as returned; panic when val[1:l-1] is out of range (l = 1)
unescapeString(val) ==
    LET l == Len(val) IN
    IF val = <<>> THEN [value |-> val, err |-> FALSE, panic |-> FALSE]
    ELSE IF val[1] = QUOTE
         THEN IF val[l] # QUOTE
              THEN [value |-> val, err |-> TRUE, panic |-> FALSE]
              ELSE IF 1 > l - 1
                   THEN [value |-> val, err |-> FALSE, panic |-> TRUE]
                   ELSE [value |-> SubSeq(val, 2, l - 1), err |-> FALSE, panic |-> FALSE]
         ELSE [value |-> val, err |-> FALSE, panic |-> FALSE]

genNetworkEntry(network) ==
    LET open == OpenLine \o <<LF>>
        ssid == IF network.ssid # <<>>
                THEN SsidPrefix \o escapeString(network.ssid) \o <<QUOTE, LF>>
                ELSE <<>>
        keyMgmt == IF network.security THEN WPAPSK ELSE NONE
        psk == IF network.psk # <<>>
               THEN PskPrefix \o escapeString(network.psk) \o <<QUOTE, LF>>
               ELSE <<>>
    IN  open \o ssid \o KeyMgmtPrefix \o keyMgmt \o <<LF>> \o psk \o CloseLine \o <<LF>>

\* ------------------------------------------------------------ file reader

\* bufio.Scanner with the default split function (ScanLines): the tokens
\* are the runs ended by LF, one CR before the LF is dropped, and a last
\* run without LF is a token when it is not empty.
dropCR(tok) ==
    IF tok # <<>> /\ tok[Len(tok)] = CR THEN SubSeq(tok, 1, Len(tok) - 1) ELSE tok

\* the tokens of data from byte start on
RECURSIVE ScanFrom(_, _)
ScanFrom(data, start) ==
    IF start > Len(data) THEN <<>>
    ELSE IF \E i \in start..Len(data) : data[i] = LF
    THEN LET e == CHOOSE i \in start..Len(data) :
                      data[i] = LF /\ \A j \in start..(i - 1) : data[j] # LF
         IN  <<dropCR(SubSeq(data, start, e - 1))>> \o ScanFrom(data, e + 1)
    ELSE <<dropCR(SubSeq(data, start, Len(data)))>>

ScanLines(data) == ScanFrom(data, 1)

\* the lines, each followed by "\n", as both loops of updateConfFile
\* rebuild them
RECURSIVE JoinLines(_)
JoinLines(lines) ==
    IF lines = <<>> THEN <<>> ELSE Head(lines) \o <<LF>> \o JoinLines(Tail(lines))

\* index of the first line that begins with the marker, 0 when none does
FirstMarker(lines) ==
    IF \E i \in 1..Len(lines) : HasPrefix(lines[i], chaifiMarker)
    THEN CHOOSE i \in 1..Len(lines) :
             /\ HasPrefix(lines[i], chaifiMarker)
             /\ \A j \in 1..(i - 1) : ~HasPrefix(lines[j], chaifiMarker)
    ELSE 0

\* ------------------------------------------------------------------- load

LoadPanic == [result |-> <<>>, panic |-> TRUE]

\* the loop of loadConfFile from line i on: inGen is inGeneratedSection,
\* hasNet tells network # nil, net is *network
RECURSIVE LoadFrom(_, _, _, _, _, _)
LoadFrom(lines, i, inGen, hasNet, net, result) ==
    IF i > Len(lines) THEN [result |-> result, panic |-> FALSE]
    ELSE IF HasPrefix(lines[i], chaifiMarker)
    THEN LoadFrom(lines, i + 1, TRUE, hasNet, net, result)
    ELSE IF ~inGen
    THEN LoadFrom(lines, i + 1, inGen, hasNet, net, result)
    ELSE LET line == Trim(lines[i]) IN
    IF Len(line) = 0
    THEN LoadFrom(lines, i + 1, inGen, hasNet, net, result)
    ELSE IF line = OpenLine
    THEN LoadFrom(lines, i + 1, inGen, TRUE, ZeroNetwork, result)
    ELSE IF line = CloseLine
    THEN (IF ~hasNet THEN LoadPanic    \* *network with network == nil
          ELSE LoadFrom(lines, i + 1, inGen, hasNet, net, Append(result, net)))
    ELSE LET eq == IndexByte(line, EQUALS) IN
    IF eq = 0 THEN LoadPanic           \* parts[1] with len(parts) == 1
    ELSE LET key == SubSeq(line, 1, eq - 1)
             u == unescapeString(SubSeq(line, eq + 1, Len(line)))
         IN
    IF u.panic THEN LoadPanic
    ELSE IF key \in {ssidKey, pskKey, keyMgmtKey} /\ ~hasNet
    THEN LoadPanic                     \* network.ssid = ... with network == nil
    ELSE IF key = ssidKey
    THEN LoadFrom(lines, i + 1, inGen, hasNet, [net EXCEPT !.ssid = u.value], result)
    ELSE IF key = pskKey
    THEN LoadFrom(lines, i + 1, inGen, hasNet, [net EXCEPT !.psk = u.value], result)
    ELSE IF key = keyMgmtKey
    THEN LoadFrom(lines, i + 1, inGen, hasNet,
                  [net EXCEPT !.security = (u.value = WPAPSK)], result)
    ELSE LoadFrom(lines, i + 1, inGen, hasNet, net, result)

loadConfFile(data) == LoadFrom(ScanLines(data), 1, FALSE, FALSE, ZeroNetwork, <<>>)

\* ------------------------------------------------------------------- save

\* GenEntries without the "\n" that follows each entry
RECURSIVE GenEntries_noBlank(_)
GenEntries_noBlank(nets) ==
    IF nets = <<>> THEN <<>>
    ELSE genNetworkEntry(Head(nets)) \o GenEntries_noBlank(Tail(nets))

RECURSIVE GenEntries(_)
GenEntries(nets) ==
    IF nets = <<>> THEN <<>>
    ELSE genNetworkEntry(Head(nets)) \o <<LF>> \o GenEntries(Tail(nets))

\* oldContent of updateConfFile: every line read, each followed by "\n"
oldContent(data) == JoinLines(ScanLines(data))

\* newContent with the test of the first loop inverted: the lines are kept
\* once the marker was seen, so the lines before it are lost
newContent_afterMarker(data, nets) ==
    LET lines == ScanLines(data)
        m == FirstMarker(lines)
        hasGeneratedSection == m # 0
        kept == IF hasGeneratedSection THEN SubSeq(lines, m + 1, Len(lines)) ELSE <<>>
    IN  JoinLines(kept)
            \o (IF ~hasGeneratedSection THEN chaifiMarker \o <<LF>> ELSE <<>>)
            \o GenEntries(nets)

\* newContent that appends the marker whether or not a line had it
newContent_markerAlways(data, nets) ==
    LET lines == ScanLines(data)
        m == FirstMarker(lines)
        hasGeneratedSection == m # 0
        kept == IF hasGeneratedSection THEN SubSeq(lines, 1, m) ELSE lines
    IN  JoinLines(kept) \o chaifiMarker \o <<LF>> \o GenEntries(nets)

\* newContent of updateConfFile: the lines up to and with the first marker
\* line, the marker when no line had it, an entry and "\n" per network
newContent(data, nets) ==
    LET lines == ScanLines(data)
        m == FirstMarker(lines)
        hasGeneratedSection == m # 0
        kept == IF hasGeneratedSection THEN SubSeq(lines, 1, m) ELSE lines
    IN  JoinLines(kept)
            \o (IF ~hasGeneratedSection THEN chaifiMarker \o <<LF>> ELSE <<>>)
            \o GenEntries(nets)

\* updateConfFile without the comparison: it always writes
updateConfFile_alwaysWrites(data, nets) ==
    [changed |-> TRUE, content |-> newContent(data, nets)]

\* updateConfFile on a file holding data: the value returned and the bytes
\* the file holds afterwards
updateConfFile(data, nets) ==
    IF oldContent(data) = newContent(data, nets)
    THEN [changed |-> FALSE, content |-> data]
    ELSE [changed |-> TRUE, content |-> newContent(data, nets)]

\* -------------------------------------------------------------- registry

\* addNetwork that updates the entry it finds ("update or add new network")
addNetwork_update(nets, newNet) ==
    IF \E i \in 1..Len(nets) : nets[i].ssid = newNet.ssid
    THEN [i \in 1..Len(nets) |-> IF nets[i].ssid = newNet.ssid THEN newNet ELSE nets[i]]
    ELSE Append(nets, newNet)

\* addNetwork that puts the new network in front of the others
addNetwork_prepend(nets, newNet) ==
    IF \E i \in 1..Len(nets) : nets[i].ssid = newNet.ssid
    THEN nets
    ELSE <<newNet>> \o nets

addNetwork(nets, newNet) ==
    IF \E i \in 1..Len(nets) : nets[i].ssid = newNet.ssid
    THEN nets
    ELSE Append(nets, newNet)

\* The loop of case "x" from index i on (1-based).  arr is the array behind
\* the slice the range statement iterates (its length is fixed when the
\* loop starts), len the current length of knownNetworks.  A match removes
\* element i in place with append(knownNetworks[:i], knownNetworks[i+1:]...),
\* which panics when i+1 exceeds the current length.
RECURSIVE DeleteFrom(_, _, _, _)
DeleteFrom(arr, len, i, ssid) ==
    IF i > Len(arr) THEN [nets |-> SubSeq(arr, 1, len), panic |-> FALSE]
    ELSE IF arr[i].ssid = ssid
    THEN (IF i > len
          THEN [nets |-> SubSeq(arr, 1, len), panic |-> TRUE]
          ELSE DeleteFrom([k \in 1..Len(arr) |->
                              IF k >= i /\ k < len THEN arr[k + 1] ELSE arr[k]],
                          len - 1, i + 1, ssid))
    ELSE DeleteFrom(arr, len, i + 1, ssid)

\* deleteNetwork that removes the first entry when some entry matches
deleteNetwork_first(nets, ssid) ==
    [nets |-> IF \E i \in 1..Len(nets) : nets[i].ssid = ssid THEN Tail(nets) ELSE nets,
     panic |-> FALSE]

\* deleteNetwork with the test inverted: the entries of another ssid go
deleteNetwork_inverted(nets, ssid) ==
    [nets |-> SelectSeq(nets, LAMBDA n : n.ssid = ssid), panic |-> FALSE]

deleteNetwork(nets, ssid) == DeleteFrom(nets, Len(nets), 1, ssid)

\* ------------------------------------------------------------ scan parser

BSSID == <<"B", "S", "S", "I", "D">>
WPAMark == <<"W", "P", "A", "<">>
RSNMark == <<"R", "S", "N", "<">>

\* strings.Split(output, "\n") from byte start on: the pieces between the
\* LFs, the piece after the last LF included (it may be empty)
RECURSIVE SplitFrom(_, _)
SplitFrom(data, start) ==
    IF \E i \in start..Len(data) : data[i] = LF
    THEN LET e == CHOOSE i \in start..Len(data) :
                      data[i] = LF /\ \A j \in start..(i - 1) : data[j] # LF
         IN  <<SubSeq(data, start, e - 1)>> \o SplitFrom(data, e + 1)
    ELSE <<SubSeq(data, start, Len(data))>>

Split(data) == SplitFrom(data, 1)

\* strings.Index(s, sub): the 0-based position of the first sub in s, -1
\* when there is none
Index(s, sub) ==
    LET at(p) == SubSeq(s, p, p + Len(sub) - 1) = sub
        ps == 1..(Len(s) - Len(sub) + 1)
    IN  IF \E p \in ps : at(p)
        THEN (CHOOSE p \in ps : at(p) /\ \A q \in 1..(p - 1) : ~at(q)) - 1
        ELSE -1

\* the byte values of the characters scan texts are made of
CharCode(c) ==
    CASE c = " " -> 32
      [] c = "<" -> 60
      [] c = ">" -> 62
      [] c = "A" -> 65
      [] c = "B" -> 66
      [] c = "D" -> 68
      [] c = "I" -> 73
      [] c = "N" -> 78
      [] c = "P" -> 80
      [] c = "R" -> 82
      [] c = "S" -> 83
      [] c = "W" -> 87
      [] c = "a" -> 97
      [] c = "b" -> 98
      [] c = "x" -> 120

\* s < t on Go strings: byte-wise lexicographic
RECURSIVE StrLess(_, _)
StrLess(s, t) ==
    IF t = <<>> THEN FALSE
    ELSE IF s = <<>> THEN TRUE
    ELSE IF Head(s) # Head(t) THEN CharCode(Head(s)) < CharCode(Head(t))
    ELSE StrLess(Tail(s), Tail(t))

\* net put into the ascending list sorted, behind the entries not greater
RECURSIVE InsertBySsid(_, _)
InsertBySsid(sorted, net) ==
    IF sorted = <<>> THEN <<net>>
    ELSE IF StrLess(net.ssid, Head(sorted).ssid) THEN <<net>> \o sorted
    ELSE <<Head(sorted)>> \o InsertBySsid(Tail(sorted), net)

\* sortBySsid left out: the result in input order
sortBySsid_none(result) == result

\* sort.Slice(result, ssid less): the ssids of result are unique, so the
\* order is the one ascending order whatever the algorithm
RECURSIVE sortBySsid(_)
sortBySsid(result) ==
    IF result = <<>> THEN <<>>
    ELSE InsertBySsid(sortBySsid(SubSeq(result, 1, Len(result) - 1)), result[Len(result)])

\* the security flag listScan gives a record
lineSecurity(line) ==
    LET wpaPos == Index(line, WPAMark) - 1
        rsnPos == Index(line, RSNMark) - 1
    IN  wpaPos > 0 \/ rsnPos > 0

\* scanLoop in which a record replaces the entry of its ssid: last wins
RECURSIVE scanLoop_lastWins(_, _, _, _)
scanLoop_lastWins(lines, i, ssidEnd, result) ==
    IF i > Len(lines) THEN result
    ELSE LET line == lines[i] IN
    IF Len(line) < ssidEnd + 1 THEN scanLoop_lastWins(lines, i + 1, ssidEnd, result)
    ELSE LET ssid == Trim(SubSeq(line, 1, ssidEnd))
             network == Network(ssid, <<>>, lineSecurity(line))
         IN
    IF ssid = <<>> THEN scanLoop_lastWins(lines, i + 1, ssidEnd, result)
    ELSE IF \E k \in 1..Len(result) : result[k].ssid = ssid
    THEN scanLoop_lastWins(lines, i + 1, ssidEnd,
             [k \in 1..Len(result) |-> IF result[k].ssid = ssid THEN network ELSE result[k]])
    ELSE scanLoop_lastWins(lines, i + 1, ssidEnd, Append(result, network))

\* the loop of listScan over the records from index i on
RECURSIVE scanLoop(_, _, _, _)
scanLoop(lines, i, ssidEnd, result) ==
    IF i > Len(lines) THEN result
    ELSE LET line == lines[i] IN
    IF Len(line) < ssidEnd + 1 THEN scanLoop(lines, i + 1, ssidEnd, result)
    ELSE LET ssid == Trim(SubSeq(line, 1, ssidEnd)) IN
    IF ssid = <<>> THEN scanLoop(lines, i + 1, ssidEnd, result)
    ELSE IF \E k \in 1..Len(result) : result[k].ssid = ssid
    THEN scanLoop(lines, i + 1, ssidEnd, result)
    ELSE scanLoop(lines, i + 1, ssidEnd,
                  Append(result, Network(ssid, <<>>, lineSecurity(line))))

\* listScan on a run of the scan command that failed (err) or wrote output;
\* the empty list stands for nil as well
listScan(err, output) ==
    IF err THEN <<>>
    ELSE LET lines == Split(output)
             header == lines[1]
             ssidEnd == Index(header, BSSID) - 1
         IN  IF ssidEnd < 0 THEN <<>>
             ELSE sortBySsid(scanLoop(Tail(lines), 1, ssidEnd, <<>>))

\* ---------------------------------------------------------------- display

\* one row of tui.list.Rows: the known mark, the ssid, the security label
Row(net, known) ==
    [mark |-> IF \E i \in 1..Len(known) : known[i].ssid = net.ssid THEN "+" ELSE " ",
     ssid |-> net.ssid,
     security |-> IF net.security THEN "WPA" ELSE ""]

RECURSIVE updateTui(_, _)
updateTui(nets, known) ==
    IF nets = <<>> THEN <<>>
    ELSE (IF Head(nets).ssid = <<>> THEN <<>> ELSE <<Row(Head(nets), known)>>)
             \o updateTui(Tail(nets), known)

\* widgets.List.ScrollAmount on a list of n rows with row sel selected
\* (0-based, as tui.list.SelectedRow)
ScrollAmount(sel, n, amount) ==
    IF n - sel <= amount THEN n - 1
    ELSE IF sel + amount < 0 THEN 0
    ELSE sel + amount

\* the heights of the list's inner rectangle that resizeTui can set
\* (listH is at most 25, less two border rows)
InnerDy == {1, 23}

\* ------------------------------------------------------------------ state

VARIABLES
    file,                   \* the bytes of the config file on disk
    file0,                  \* the bytes the file held when the run started
    networks,               \* the scan list (main: networks)
    knownNetworks,          \* the registry (main: knownNetworks)
    Rows,                   \* tui.list.Rows
    SelectedRow,            \* tui.list.SelectedRow
    passwordPromptVisible,
    password,
    pc,                     \* where main is: "loop", "exit", "panic", "restart",
                            \* "restartAborted", "done", "aborted", "fatal"
    haveNewConfig,          \* what updateConfFile returned
    writes,                 \* how many times this run wrote the file
    lastEvent,              \* e.ID of the event handled last
    justAdded,              \* the last event before any quit appended a network
    justUndone,             \* the last event before any quit was an "x" that
                            \* followed an event that appended a network
    runs,                   \* how many times the program was started
    restartNetwork,         \* the -r flag
    restarts,               \* how many times this run ran "service netif restart"
    restartErr,             \* cmd.Run() of the restart command returned an error
    codec,                  \* serialize/parse pipeline of SpecCodec
    scanner                 \* listScan applied to a command output (SpecScan)

vars == <<file, file0, networks, knownNetworks, Rows, SelectedRow,
          passwordPromptVisible, password, pc, haveNewConfig, writes,
          lastEvent, justAdded, justUndone, runs, restartNetwork, restarts, restartErr, codec,
          scanner>>

\* ----------------------------------------------------------------- inputs

NetA == Network(<<"a">>, <<>>, FALSE)
NetB == Network(<<"b">>, <<"p">>, TRUE)

\* what listScan can return: no psk, no empty ssid, ssids unique and
\* ascending; the empty list stands for nil as well
ScanA == Network(<<"a">>, <<>>, FALSE)
ScanB == Network(<<"b">>, <<>>, TRUE)
ScanResults == {<<>>, <<ScanA>>, <<ScanA, ScanB>>}

UserLine == <<"c", "=", "1">>

MarkerLine == chaifiMarker \o <<LF>>
Generated(nets) == MarkerLine \o GenEntries(nets)

\* a section written by hand: indentation, a bare value, an unknown key,
\* no blank line, no final newline
HandWritten ==
    MarkerLine
        \o <<" ">> \o OpenLine \o <<LF>>
        \o <<"s", "s", "i", "d", "=", "a", LF>>
        \o <<"p", "r", "i", "o", "=", "5", LF>>
        \o <<"p", "s", "k", "=", QUOTE, "p", QUOTE, LF>>
        \o CloseLine

\* a second marker line, with text after the literal, inside the section
TwoMarkers ==
    Generated(<<NetA>>) \o chaifiMarker \o <<" ", "2", LF>> \o GenEntries(<<NetB>>)

\* sections on which loadConfFile panics
BadClose == MarkerLine \o CloseLine \o <<LF>>
BadNoEquals == MarkerLine \o OpenLine \o <<LF>> \o <<"x", LF>> \o CloseLine \o <<LF>>
BadQuote == MarkerLine \o OpenLine \o <<LF>> \o <<"p", "s", "k", "=", QUOTE, LF>>
BadKey == MarkerLine \o <<"s", "s", "i", "d", "=", "a", LF>>

\* files started with every scan result: one user line, then no section,
\* an empty one, generated ones, the hand-written one, two marker lines
CoreFiles ==
    {UserLine \o <<LF>> \o s :
        s \in {<<>>, MarkerLine, Generated(<<NetA>>), Generated(<<NetA, NetB>>),
               HandWritten, TwoMarkers}}

\* files started with the scan results that need no password: no user
\* line, a CR LF line end, a last line without newline, duplicate blocks,
\* sections loadConfFile panics on
EdgeFiles ==
    {p \o s : p \in {<<>>, UserLine \o <<CR, LF>>},
              s \in {<<>>, MarkerLine, Generated(<<NetA, NetB>>)}}
    \cup {UserLine \o <<LF>> \o s :
            s \in {chaifiMarker, BadClose, BadNoEquals, BadQuote, BadKey,
                   Generated(<<NetA, NetA>>), Generated(<<NetA, NetB, NetA>>),
                   Generated(<<NetB, NetA, NetA>>)}}
    \cup {UserLine}

InitFiles == CoreFiles \cup EdgeFiles

\* the file and the scan result a run starts with
InitInputs ==
    {[file |-> f, scan |-> sc] : f \in CoreFiles, sc \in ScanResults}
    \cup {[file |-> f, scan |-> sc] : f \in EdgeFiles, sc \in {<<>>, <<ScanA>>}}

\* single-byte key ids (len(e.ID) == 1) the model types
TypedChars == {"q", QUOTE}

\* ------------------------------------------------------------------- init

CodecOff == [phase |-> "off"]
ScanOff == [phase |-> "off"]

\* main up to the event loop, on a file holding data and a scan result scan
Launch(data, scan) ==
    LET l == loadConfFile(data) IN
    /\ file0' = data
    /\ networks' = scan
    /\ knownNetworks' = l.result
    /\ Rows' = IF l.panic THEN <<>> ELSE updateTui(scan, l.result)
    /\ SelectedRow' = 0
    /\ passwordPromptVisible' = FALSE
    /\ password' = <<>>
    /\ pc' = IF l.panic THEN "fatal" ELSE "loop"
    /\ haveNewConfig' = FALSE
    /\ writes' = 0
    /\ restarts' = 0
    /\ restartErr' = FALSE
    /\ lastEvent' = ""
    /\ justAdded' = FALSE
    /\ justUndone' = FALSE

Init ==
    /\ \E in \in InitInputs : file = in.file /\ networks = in.scan
    /\ file0 = file
    /\ LET l == loadConfFile(file) IN
        /\ knownNetworks = l.result
        /\ Rows = IF l.panic THEN <<>> ELSE updateTui(networks, l.result)
        /\ pc = IF l.panic THEN "fatal" ELSE "loop"
    /\ SelectedRow = 0
    /\ passwordPromptVisible = FALSE
    /\ password = <<>>
    /\ haveNewConfig = FALSE
    /\ writes = 0
    /\ lastEvent = ""
    /\ justAdded = FALSE
    /\ justUndone = FALSE
    /\ runs = 1
    /\ restartNetwork \in BOOLEAN
    /\ restarts = 0
    /\ restartErr = FALSE
    /\ codec = CodecOff
    /\ scanner = ScanOff

\* ----------------------------------------------------------------- events

Browsing == pc = "loop" /\ ~passwordPromptVisible
PasswordEntry == pc = "loop" /\ passwordPromptVisible

\* networks[tui.list.SelectedRow] is in range
SelectedInRange == SelectedRow >= 0 /\ SelectedRow < Len(networks)
selectedNet == networks[SelectedRow + 1]

disk == <<file, file0, haveNewConfig, writes, runs, restartNetwork, restarts,
          restartErr, codec, scanner>>

\* Resize that goes back to the list: the password prompt is closed
Resize_closesPrompt ==
    /\ pc = "loop"
    /\ justAdded' = FALSE
    /\ justUndone' = FALSE
    /\ Rows' = updateTui(networks, knownNetworks)
    /\ passwordPromptVisible' = FALSE
    /\ lastEvent' = "<Resize>"
    /\ UNCHANGED <<networks, knownNetworks, SelectedRow, password, pc, disk>>

\* Resize that puts the cursor back on the first row
Resize_resetsCursor ==
    /\ pc = "loop"
    /\ justAdded' = FALSE
    /\ justUndone' = FALSE
    /\ Rows' = updateTui(networks, knownNetworks)
    /\ SelectedRow' = 0
    /\ lastEvent' = "<Resize>"
    /\ UNCHANGED <<networks, knownNetworks, passwordPromptVisible, password, pc, disk>>

\* e.ID == "<Resize>", in either mode
Resize ==
    /\ pc = "loop"
    /\ justAdded' = FALSE
    /\ justUndone' = FALSE
    /\ Rows' = updateTui(networks, knownNetworks)
    /\ lastEvent' = "<Resize>"
    /\ UNCHANGED <<networks, knownNetworks, SelectedRow, passwordPromptVisible,
                   password, pc, disk>>

\* password mode, len(e.ID) == 1
PwKey ==
    /\ PasswordEntry
    /\ justAdded' = FALSE
    /\ justUndone' = FALSE
    /\ Len(password) < MaxPwLen
    /\ \E c \in TypedChars :
        /\ password' = Append(password, c)
        /\ lastEvent' = c
    /\ UNCHANGED <<networks, knownNetworks, Rows, SelectedRow,
                   passwordPromptVisible, pc, disk>>

PwEnter ==
    /\ PasswordEntry
    /\ lastEvent' = "<Enter>"
    /\ IF SelectedInRange
       THEN LET known == addNetwork(knownNetworks, [selectedNet EXCEPT !.psk = password]) IN
            /\ knownNetworks' = known
            /\ Rows' = updateTui(networks, known)
            /\ passwordPromptVisible' = FALSE
            /\ password' = <<>>
            /\ UNCHANGED pc
       ELSE /\ pc' = "panic"
            /\ UNCHANGED <<knownNetworks, Rows, passwordPromptVisible, password>>
    /\ justAdded' = (knownNetworks' # knownNetworks)
    /\ justUndone' = FALSE
    /\ UNCHANGED <<networks, SelectedRow, disk>>

\* PwCancel that keeps what was typed: it adds the network like <Enter>
PwCancel_confirms ==
    /\ PasswordEntry
    /\ justAdded' = FALSE
    /\ justUndone' = FALSE
    /\ lastEvent' \in {"<Escape>", "<C-c>"}
    /\ passwordPromptVisible' = FALSE
    /\ password' = <<>>
    /\ knownNetworks' = addNetwork(knownNetworks, [selectedNet EXCEPT !.psk = password])
    /\ Rows' = updateTui(networks, knownNetworks')
    /\ UNCHANGED <<networks, SelectedRow, pc, disk>>

PwCancel ==
    /\ PasswordEntry
    /\ justAdded' = FALSE
    /\ justUndone' = FALSE
    /\ lastEvent' \in {"<Escape>", "<C-c>"}
    /\ passwordPromptVisible' = FALSE
    /\ password' = <<>>
    /\ UNCHANGED <<networks, knownNetworks, Rows, SelectedRow, pc, disk>>

PwClear ==
    /\ PasswordEntry
    /\ justAdded' = FALSE
    /\ justUndone' = FALSE
    /\ lastEvent' = "<C-u>"
    /\ password' = <<>>
    /\ UNCHANGED <<networks, knownNetworks, Rows, SelectedRow,
                   passwordPromptVisible, pc, disk>>

\* PwBackspace that cuts the first byte of the buffer, not the last
PwBackspace_dropsFirst ==
    /\ PasswordEntry
    /\ justAdded' = FALSE
    /\ justUndone' = FALSE
    /\ lastEvent' = "<Backspace>"
    /\ IF Len(password) >= 1
       THEN /\ password' = Tail(password)
            /\ UNCHANGED pc
       ELSE /\ pc' = "panic"
            /\ UNCHANGED password
    /\ UNCHANGED <<networks, knownNetworks, Rows, SelectedRow,
                   passwordPromptVisible, disk>>

\* password[:len(password)-1] panics on the empty string
PwBackspace ==
    /\ PasswordEntry
    /\ justAdded' = FALSE
    /\ justUndone' = FALSE
    /\ lastEvent' = "<Backspace>"
    /\ IF Len(password) >= 1
       THEN /\ password' = SubSeq(password, 1, Len(password) - 1)
            /\ UNCHANGED pc
       ELSE /\ pc' = "panic"
            /\ UNCHANGED password
    /\ UNCHANGED <<networks, knownNetworks, Rows, SelectedRow,
                   passwordPromptVisible, disk>>

PwSpace ==
    /\ PasswordEntry
    /\ justAdded' = FALSE
    /\ justUndone' = FALSE
    /\ Len(password) < MaxPwLen
    /\ lastEvent' = "<Space>"
    /\ password' = Append(password, SPACE)
    /\ UNCHANGED <<networks, knownNetworks, Rows, SelectedRow,
                   passwordPromptVisible, pc, disk>>

\* any other key id of more than one byte: no case of the switch
PwOther ==
    /\ PasswordEntry
    /\ justAdded' = FALSE
    /\ justUndone' = FALSE
    /\ lastEvent' = "<Tab>"
    /\ UNCHANGED <<networks, knownNetworks, Rows, SelectedRow,
                   passwordPromptVisible, password, pc, disk>>

Quit ==
    /\ Browsing
    /\ lastEvent' \in {"q", "<C-c>"}
    /\ pc' = "exit"
    /\ UNCHANGED <<networks, knownNetworks, Rows, SelectedRow,
                   passwordPromptVisible, password, justAdded, justUndone, disk>>

\* what a navigation key leaves alone: only the cursor moves
navFrame == <<networks, knownNetworks, Rows, passwordPromptVisible, password, pc, disk>>

ScrollDown ==
    /\ Browsing
    /\ justAdded' = FALSE
    /\ justUndone' = FALSE
    /\ lastEvent' = "<Down>"
    /\ SelectedRow' = ScrollAmount(SelectedRow, Len(Rows), 1)
    /\ UNCHANGED navFrame

ScrollUp ==
    /\ Browsing
    /\ justAdded' = FALSE
    /\ justUndone' = FALSE
    /\ lastEvent' = "<Up>"
    /\ SelectedRow' = ScrollAmount(SelectedRow, Len(Rows), -1)
    /\ UNCHANGED navFrame

ScrollHalfPageDown ==
    /\ Browsing
    /\ justAdded' = FALSE
    /\ justUndone' = FALSE
    /\ lastEvent' = "<C-d>"
    /\ \E dy \in InnerDy : SelectedRow' = ScrollAmount(SelectedRow, Len(Rows), dy \div 2)
    /\ UNCHANGED navFrame

ScrollHalfPageUp ==
    /\ Browsing
    /\ justAdded' = FALSE
    /\ justUndone' = FALSE
    /\ lastEvent' = "<C-u>"
    /\ \E dy \in InnerDy : SelectedRow' = ScrollAmount(SelectedRow, Len(Rows), -(dy \div 2))
    /\ UNCHANGED navFrame

ScrollPageDown ==
    /\ Browsing
    /\ justAdded' = FALSE
    /\ justUndone' = FALSE
    /\ lastEvent' = "<PageDown>"
    /\ \E dy \in InnerDy : SelectedRow' = ScrollAmount(SelectedRow, Len(Rows), dy)
    /\ UNCHANGED navFrame

\* the list of the model fits its window, so its top row is row 0
ScrollPageUp ==
    /\ Browsing
    /\ justAdded' = FALSE
    /\ justUndone' = FALSE
    /\ lastEvent' = "<PageUp>"
    /\ \E dy \in InnerDy :
        SelectedRow' = IF SelectedRow > 0 THEN 0
                       ELSE ScrollAmount(SelectedRow, Len(Rows), -dy)
    /\ UNCHANGED navFrame

ScrollTop ==
    /\ Browsing
    /\ justAdded' = FALSE
    /\ justUndone' = FALSE
    /\ lastEvent' = "<Home>"
    /\ SelectedRow' = 0
    /\ UNCHANGED navFrame

ScrollBottom ==
    /\ Browsing
    /\ justAdded' = FALSE
    /\ justUndone' = FALSE
    /\ lastEvent' = "<End>"
    /\ SelectedRow' = Len(Rows) - 1
    /\ UNCHANGED navFrame

\* case "a" that saves the registry as soon as a network is added
KeyA_saving ==
    /\ Browsing
    /\ lastEvent' = "a"
    /\ IF ~SelectedInRange
       THEN /\ pc' = "panic"
            /\ UNCHANGED <<knownNetworks, Rows, passwordPromptVisible, file>>
       ELSE IF selectedNet.security
       THEN /\ passwordPromptVisible' = TRUE
            /\ UNCHANGED <<knownNetworks, Rows, pc, file>>
       ELSE LET known == addNetwork(knownNetworks, selectedNet) IN
            /\ knownNetworks' = known
            /\ Rows' = updateTui(networks, known)
            /\ file' = updateConfFile(file, known).content
            /\ UNCHANGED <<passwordPromptVisible, pc>>
    /\ justAdded' = (knownNetworks' # knownNetworks)
    /\ justUndone' = FALSE
    /\ UNCHANGED <<networks, SelectedRow, password, file0, haveNewConfig, writes,
                   runs, restartNetwork, restarts, restartErr, codec, scanner>>

\* case "a"
KeyA ==
    /\ Browsing
    /\ lastEvent' = "a"
    /\ IF ~SelectedInRange
       THEN /\ pc' = "panic"
            /\ UNCHANGED <<knownNetworks, Rows, passwordPromptVisible>>
       ELSE IF selectedNet.security
       THEN /\ passwordPromptVisible' = TRUE
            /\ UNCHANGED <<knownNetworks, Rows, pc>>
       ELSE LET known == addNetwork(knownNetworks, selectedNet) IN
            /\ knownNetworks' = known
            /\ Rows' = updateTui(networks, known)
            /\ UNCHANGED <<passwordPromptVisible, pc>>
    /\ justAdded' = (knownNetworks' # knownNetworks)
    /\ justUndone' = FALSE
    /\ UNCHANGED <<networks, SelectedRow, password, disk>>

\* case "x" without the updateTui that follows the loop
KeyX_noRender ==
    /\ Browsing
    /\ justAdded' = FALSE
    /\ justUndone' = justAdded
    /\ lastEvent' = "x"
    /\ IF ~SelectedInRange
       THEN /\ pc' = "panic"
            /\ UNCHANGED knownNetworks
       ELSE LET d == deleteNetwork(knownNetworks, selectedNet.ssid) IN
            /\ knownNetworks' = d.nets
            /\ pc' = IF d.panic THEN "panic" ELSE pc
    /\ UNCHANGED <<networks, Rows, SelectedRow, passwordPromptVisible, password, disk>>

\* case "x"
KeyX ==
    /\ Browsing
    /\ justAdded' = FALSE
    /\ justUndone' = justAdded
    /\ lastEvent' = "x"
    /\ IF ~SelectedInRange
       THEN /\ pc' = "panic"
            /\ UNCHANGED <<knownNetworks, Rows>>
       ELSE LET d == deleteNetwork(knownNetworks, selectedNet.ssid) IN
            /\ knownNetworks' = d.nets
            /\ IF d.panic
               THEN pc' = "panic" /\ UNCHANGED Rows
               ELSE Rows' = updateTui(networks, d.nets) /\ UNCHANGED pc
    /\ UNCHANGED <<networks, SelectedRow, passwordPromptVisible, password, disk>>

\* any other key in list mode: no case of the switch
BrowseOther ==
    /\ Browsing
    /\ justAdded' = FALSE
    /\ justUndone' = FALSE
    /\ lastEvent' = "<Tab>"
    /\ UNCHANGED <<networks, knownNetworks, Rows, SelectedRow,
                   passwordPromptVisible, password, pc, disk>>

\* DeferredSave that compares with, and keeps the preamble of, the content
\* read when the run started instead of reading the file again
DeferredSave_againstStartup ==
    /\ pc \in {"exit", "panic"}
    /\ LET u == updateConfFile(file0, knownNetworks) IN
        /\ file' = IF u.changed THEN u.content ELSE file
        /\ haveNewConfig' = u.changed
        /\ writes' = IF u.changed THEN writes + 1 ELSE writes
        /\ pc' = IF u.changed /\ restartNetwork
                 THEN (IF pc = "exit" THEN "restart" ELSE "restartAborted")
                 ELSE (IF pc = "exit" THEN "done" ELSE "aborted")
    /\ UNCHANGED <<file0, networks, knownNetworks, Rows, SelectedRow,
                   passwordPromptVisible, password, lastEvent, justAdded, justUndone, runs,
                   restartNetwork, restarts, restartErr, codec, scanner>>

\* DeferredSave that restarts whenever -r is given, changed or not
DeferredSave_restartsUnchanged ==
    /\ pc \in {"exit", "panic"}
    /\ LET u == updateConfFile(file, knownNetworks) IN
        /\ file' = u.content
        /\ haveNewConfig' = u.changed
        /\ writes' = IF u.changed THEN writes + 1 ELSE writes
        /\ pc' = IF restartNetwork
                 THEN (IF pc = "exit" THEN "restart" ELSE "restartAborted")
                 ELSE (IF pc = "exit" THEN "done" ELSE "aborted")
    /\ UNCHANGED <<file0, networks, knownNetworks, Rows, SelectedRow,
                   passwordPromptVisible, password, lastEvent, justAdded, justUndone, runs,
                   restartNetwork, restarts, restartErr, codec, scanner>>

\* the deferred function of main up to the test of restartNetwork: it runs
\* when main returns and when a panic unwinds main.  updateConfFile has
\* written and closed the file when it returns.
DeferredSave ==
    /\ pc \in {"exit", "panic"}
    /\ LET u == updateConfFile(file, knownNetworks) IN
        /\ file' = u.content
        /\ haveNewConfig' = u.changed
        /\ writes' = IF u.changed THEN writes + 1 ELSE writes
        /\ pc' = IF u.changed /\ restartNetwork
                 THEN (IF pc = "exit" THEN "restart" ELSE "restartAborted")
                 ELSE (IF pc = "exit" THEN "done" ELSE "aborted")
    /\ UNCHANGED <<file0, networks, knownNetworks, Rows, SelectedRow,
                   passwordPromptVisible, password, lastEvent, justAdded, justUndone, runs,
                   restartNetwork, restarts, restartErr, codec, scanner>>

\* the rest of the deferred function when haveNewConfig and restartNetwork:
\* "service netif restart" is run; what cmd.Run() returns is not looked at,
\* then the process ends as it would have
Restart ==
    /\ pc \in {"restart", "restartAborted"}
    /\ restarts' = restarts + 1
    /\ restartErr' \in BOOLEAN
    /\ pc' = IF pc = "restart" THEN "done" ELSE "aborted"
    /\ UNCHANGED <<file, file0, networks, knownNetworks, Rows, SelectedRow,
                   passwordPromptVisible, password, haveNewConfig, writes,
                   lastEvent, justAdded, justUndone, runs, restartNetwork, codec, scanner>>

Next ==
    \/ Resize
    \/ PwKey \/ PwEnter \/ PwCancel \/ PwClear \/ PwBackspace \/ PwSpace \/ PwOther
    \/ Quit
    \/ ScrollDown \/ ScrollUp \/ ScrollHalfPageDown \/ ScrollHalfPageUp
    \/ ScrollPageDown \/ ScrollPageUp \/ ScrollTop \/ ScrollBottom
    \/ KeyA \/ KeyX \/ BrowseOther
    \/ DeferredSave
    \/ Restart

Spec == Init /\ [][Next]_vars

\* --------------------------------------------------------- other writers

\* what another program writes to the file while the session runs: a line
\* put before the first line, a network block put behind the last line
ExternalLine == <<"d", "=", "2", LF>>
ExternalBlock == genNetworkEntry(Network(<<"x">>, <<>>, FALSE))

\* the file is not locked: another program rewrites it between the load
\* and the deferred save (once, while it still holds its startup bytes)
ExternalEdit ==
    /\ pc = "loop"
    /\ file = file0
    /\ file' \in {ExternalLine \o file, file \o ExternalBlock}
    /\ UNCHANGED <<file0, networks, knownNetworks, Rows, SelectedRow,
                   passwordPromptVisible, password, pc, haveNewConfig, writes,
                   lastEvent, justAdded, justUndone, runs, restartNetwork, restarts, restartErr,
                   codec, scanner>>

\* a session of add, delete, confirm, cancel and quit with another writer
NextExternal ==
    \/ ExternalEdit
    \/ ScrollDown \/ KeyA \/ KeyX \/ PwEnter \/ PwCancel \/ Quit
    \/ DeferredSave
    \/ Restart

SpecExternal == Init /\ [][NextExternal]_vars

\* ------------------------------------------------------------ later runs

\* the program is started again on the file the last run left
Relaunch ==
    /\ pc \in {"done", "aborted"}
    /\ runs < MaxRuns
    /\ runs' = runs + 1
    /\ \E scan \in ScanResults : Launch(file, scan)
    /\ UNCHANGED <<file, restartNetwork, codec, scanner>>

\* a first run with any events, then runs in which the user only quits
NextCycle ==
    \/ runs = 1 /\ Next
    \/ Relaunch
    \/ runs > 1 /\ Quit
    \/ runs > 1 /\ DeferredSave
    \/ runs > 1 /\ Restart

SpecCycle == Init /\ [][NextCycle]_vars

\* ------------------------------------------------------------------ codec

\* the bytes of the ssid and psk values given to the codec
CodecChars == {"a", SPACE, EQUALS, QUOTE, BSLASH}

StringsUpTo(chars, n) == UNION {[1..k -> chars] : k \in 0..n}

CodecNetworks ==
    {Network(ssid, psk, security) :
        ssid \in StringsUpTo(CodecChars, MaxStrLen),
        psk \in StringsUpTo(CodecChars, MaxStrLen),
        security \in BOOLEAN}

InitCodec ==
    /\ codec \in {[phase |-> "input", network |-> n, text |-> <<>>,
                   parsed |-> <<>>, panic |-> FALSE] : n \in CodecNetworks}
    /\ file = <<>>
    /\ file0 = <<>>
    /\ networks = <<>>
    /\ knownNetworks = <<>>
    /\ Rows = <<>>
    /\ SelectedRow = 0
    /\ passwordPromptVisible = FALSE
    /\ password = <<>>
    /\ pc = "codec"
    /\ haveNewConfig = FALSE
    /\ writes = 0
    /\ lastEvent = ""
    /\ justAdded = FALSE
    /\ justUndone = FALSE
    /\ runs = 1
    /\ restartNetwork = FALSE
    /\ restarts = 0
    /\ restartErr = FALSE
    /\ scanner = ScanOff

session == <<file, file0, networks, knownNetworks, Rows, SelectedRow,
             passwordPromptVisible, password, pc, haveNewConfig, writes,
             lastEvent, justAdded, justUndone, runs, restartNetwork, restarts, restartErr,
             scanner>>

\* genNetworkEntry applied to the input
CodecSerialize ==
    /\ codec.phase = "input"
    /\ codec' = [codec EXCEPT !.phase = "text", !.text = genNetworkEntry(codec.network)]
    /\ UNCHANGED session

\* loadConfFile applied to a file that holds the marker line and the entry
CodecParse ==
    /\ codec.phase = "text"
    /\ LET l == loadConfFile(MarkerLine \o codec.text) IN
        codec' = [codec EXCEPT !.phase = "parsed", !.parsed = l.result, !.panic = l.panic]
    /\ UNCHANGED session

NextCodec == CodecSerialize \/ CodecParse

SpecCodec == InitCodec /\ [][NextCodec]_vars

\* ---------------------------------------------------------------- scanner

\* header rows: the SSID field 6 bytes wide, 1 byte wide, no SSID field
\* (the label at offset 0), no label
ScanHeaders ==
    {<<"S", "S", "I", "D", " ", " ", " ">> \o BSSID,
     <<"S", " ">> \o BSSID,
     BSSID,
     <<"S", "S", "I", "D">>}

\* the first 6 bytes of a record: ssid a, b, a after spaces, none, an
\* indicator inside the ssid from position 2 on, one at position 0
FieldA == <<"a", " ", " ", " ", " ", " ">>
FieldB == <<"b", " ", " ", " ", " ", " ">>
FieldIndented == <<" ", " ", "a", " ", " ", " ">>
FieldEmpty == <<" ", " ", " ", " ", " ", " ">>
FieldWpaInside == <<"a", "b", "W", "P", "A", "<">>
FieldRsnFirst == <<"R", "S", "N", "<", " ", " ">>

\* what follows them: no indicator, either indicator
TailPlain == <<" ", "x">>
TailWpa == <<" ", "W", "P", "A", "<", "x", ">">>
TailRsn == <<" ", "R", "S", "N", "<", "x", ">">>

ScanRecords ==
    {FieldA, FieldA \o TailPlain, FieldA \o TailWpa, FieldIndented \o TailPlain,
     FieldB \o TailRsn, FieldB \o TailPlain, FieldEmpty \o TailWpa,
     FieldWpaInside \o TailPlain, FieldRsnFirst \o TailWpa}

\* the command output: the header row and the records, each ended by LF
ScanOutput(header, records) == JoinLines(<<header>> \o records)

ScanOutputs ==
    {ScanOutput(h, recs) :
        h \in ScanHeaders, recs \in UNION {[1..k -> ScanRecords] : k \in 0..MaxRecords}}

\* no session runs
SessionOff ==
    /\ file = <<>>
    /\ file0 = <<>>
    /\ networks = <<>>
    /\ knownNetworks = <<>>
    /\ Rows = <<>>
    /\ SelectedRow = 0
    /\ passwordPromptVisible = FALSE
    /\ password = <<>>
    /\ haveNewConfig = FALSE
    /\ writes = 0
    /\ lastEvent = ""
    /\ justAdded = FALSE
    /\ justUndone = FALSE
    /\ runs = 1
    /\ restartNetwork = FALSE
    /\ restarts = 0
    /\ restartErr = FALSE

InitScan ==
    /\ scanner \in {[phase |-> "input", err |-> FALSE, output |-> o, result |-> <<>>] :
                       o \in ScanOutputs}
                   \cup {[phase |-> "input", err |-> TRUE, output |-> <<>>, result |-> <<>>]}
    /\ pc = "scan"
    /\ codec = CodecOff
    /\ SessionOff

\* networks := listScan(iface)
ListScan ==
    /\ scanner.phase = "input"
    /\ scanner' = [scanner EXCEPT !.phase = "done",
                                  !.result = listScan(scanner.err, scanner.output)]
    /\ UNCHANGED <<file, file0, networks, knownNetworks, Rows, SelectedRow,
                   passwordPromptVisible, password, pc, haveNewConfig, writes,
                   lastEvent, justAdded, justUndone, runs, restartNetwork, restarts, restartErr,
                   codec>>

NextScan == ListScan

SpecScan == InitScan /\ [][NextScan]_vars

\* ---------------------------------------------------------------- values

\* the bytes of the values given to unescapeString
ValueChars == {"a", QUOTE, BSLASH}

InitUnescape ==
    /\ codec \in {[phase |-> "value", val |-> v,
                   out |-> [value |-> <<>>, err |-> FALSE, panic |-> FALSE]] :
                     v \in StringsUpTo(ValueChars, MaxValLen)}
    /\ pc = "codec"
    /\ scanner = ScanOff
    /\ SessionOff

\* value, err := unescapeString(parts[1])
Unescape ==
    /\ codec.phase = "value"
    /\ codec' = [codec EXCEPT !.phase = "unescaped", !.out = unescapeString(codec.val)]
    /\ UNCHANGED session

NextUnescape == Unescape

SpecUnescape == InitUnescape /\ [][NextUnescape]_vars

\* ------------------------------------------------------------ properties

\* the deferred save has run
Saved == pc \in {"done", "aborted", "restart", "restartAborted"}

Contains(nets, ssid) == \E i \in 1..Len(nets) : nets[i].ssid = ssid

\* nets without the entries whose ssid is ssid, the others in their order
RECURSIVE Without(_, _)
Without(nets, ssid) ==
    IF nets = <<>> THEN <<>>
    ELSE (IF Head(nets).ssid = ssid THEN <<>> ELSE <<Head(nets)>>)
             \o Without(Tail(nets), ssid)

\* the lines of data that precede its first marker line (all of them when
\* it has none); a line's text excludes its terminator
PreambleOf(data) ==
    LET lines == ScanLines(data)
        m == FirstMarker(lines)
    IN  IF m = 0 THEN lines ELSE SubSeq(lines, 1, m - 1)

\* the first marker line of data, the bare marker when it has none
MarkerLineOf(data) ==
    LET lines == ScanLines(data)
        m == FirstMarker(lines)
    IN  IF m = 0 THEN chaifiMarker ELSE lines[m]

\* the lines of the entries of nets, a blank line after each entry
RECURSIVE EntryLines(_)
EntryLines(nets) ==
    IF nets = <<>> THEN <<>>
    ELSE ScanLines(genNetworkEntry(Head(nets))) \o << <<>> >> \o EntryLines(Tail(nets))

MarkerCount(lines) == Cardinality({i \in 1..Len(lines) : HasPrefix(lines[i], chaifiMarker)})

\* C1: after the save step the lines that preceded the first marker line of
\* the startup file (all its lines when it had none) are the first lines of
\* the file, in the same order and with the same text, and no marker line
\* precedes them, whatever the registry holds.
C1_PreamblePreserved ==
    Saved =>
        LET pre == PreambleOf(file0)
            now == ScanLines(file)
        IN  /\ Len(now) >= Len(pre)
            /\ SubSeq(now, 1, Len(pre)) = pre
            /\ PreambleOf(file) = pre

\* C1 witness: the file was rewritten with a registry that is not empty and
\* the startup file had lines before its marker line
C1_Witness ==
    /\ pc = "done"
    /\ haveNewConfig
    /\ knownNetworks # <<>>
    /\ PreambleOf(file0) # <<>>
    /\ FirstMarker(ScanLines(file0)) # 0

C4_ByteCompare ==
    Saved => (haveNewConfig <=> newContent(file0, knownNetworks) # file0)

\* C4 amended: the file is rewritten exactly when the regenerated content
\* differs from the existing content as read line by line, every line
\* ended by one "\n"; "changed" is reported exactly when the file was
\* rewritten, and then the file holds the regenerated content; otherwise
\* the file is untouched.
C4_ChangeDetection ==
    Saved =>
        /\ haveNewConfig <=> newContent(file0, knownNetworks) # oldContent(file0)
        /\ haveNewConfig <=> file # file0
        /\ haveNewConfig <=> writes = 1
        /\ haveNewConfig => file = newContent(file0, knownNetworks)

\* C4 witness: the save reported "unchanged" for a file whose bytes differ
\* from the regenerated content (line ends only)
C4_Witness ==
    /\ Saved
    /\ ~haveNewConfig
    /\ newContent(file0, knownNetworks) # file0

\* C5: after the save the lines of the file are the preamble lines, one
\* marker line (the existing one, the bare marker when there was none), then
\* per registry network, in registry order, the lines of its entry and one
\* blank line, and nothing else; a written file ends every line with "\n".
\* An empty registry saved on a file without marker is reported "changed"
\* and gives the original lines plus the marker line (the original bytes
\* plus the marker line when the original ended its lines with "\n").
C5_ContentWritten ==
    Saved =>
        /\ ScanLines(file) =
               PreambleOf(file0) \o <<MarkerLineOf(file0)>> \o EntryLines(knownNetworks)
        /\ haveNewConfig => file = JoinLines(ScanLines(file))
        /\ (knownNetworks = <<>> /\ FirstMarker(ScanLines(file0)) = 0) =>
               /\ haveNewConfig
               /\ ScanLines(file) = ScanLines(file0) \o <<chaifiMarker>>
               /\ file0 = oldContent(file0) => file = file0 \o chaifiMarker \o <<LF>>

\* C5 witness: a file without marker was saved with two networks
C5_Witness ==
    /\ pc = "done"
    /\ haveNewConfig
    /\ FirstMarker(ScanLines(file0)) = 0
    /\ Len(knownNetworks) = 2

\* C6: after a save that wrote the file exactly one line of the file begins
\* with the marker literal, and no line of a serialized registry entry does.
C6_MarkerUnique ==
    (Saved /\ haveNewConfig) =>
        /\ MarkerCount(ScanLines(file)) = 1
        /\ \A i \in 1..Len(knownNetworks) :
               MarkerCount(ScanLines(genNetworkEntry(knownNetworks[i]))) = 0

\* C6 witness: a file with two marker lines was rewritten with a registry
\* that is not empty
C6_Witness ==
    /\ pc = "done"
    /\ haveNewConfig
    /\ MarkerCount(ScanLines(file0)) = 2
    /\ knownNetworks # <<>>

C9_DeleteAll ==
    [][(Browsing /\ lastEvent' = "x" /\ SelectedInRange)
       => /\ pc' = "loop"
          /\ knownNetworks' = Without(knownNetworks, selectedNet.ssid)]_vars

\* C10 as stated: a backspace event in the password prompt does not abort
\* the session; it leaves the prompt open and the registry alone, removes
\* the last character of a buffer that is not empty and leaves an empty
\* buffer empty.
C10_BackspaceNoop ==
    [][(PasswordEntry /\ lastEvent' = "<Backspace>")
       => /\ pc' = "loop"
          /\ passwordPromptVisible'
          /\ knownNetworks' = knownNetworks
          /\ password' = IF password = <<>> THEN <<>>
                         ELSE SubSeq(password, 1, Len(password) - 1)]_vars

\* C2 as stated: when the program is started on a file a save has left and
\* saves the registry it loaded, with no edit in between, the save writes
\* nothing, reports "unchanged" and the file keeps its bytes; and so in
\* every later run.
C2_SaveIdempotent ==
    (Saved /\ runs >= 2 /\ knownNetworks = loadConfFile(file0).result)
        => ~haveNewConfig /\ writes = 0 /\ file = file0

\* C7: a network whose ssid and psk hold no double quote and no backslash,
\* serialized and parsed back in a generated section, gives exactly one
\* network, with the same ssid, psk and security.
PlainString(str) == \A i \in 1..Len(str) : str[i] \notin {QUOTE, BSLASH}

C7_EntryRoundTrip ==
    (/\ codec.phase = "parsed"
     /\ PlainString(codec.network.ssid)
     /\ PlainString(codec.network.psk))
        => ~codec.panic /\ codec.parsed = <<codec.network>>

\* C7 witness: the round trip of a secure network with '=' in its ssid and
\* a space in its psk
C7_Witness ==
    /\ codec.phase = "parsed"
    /\ codec.network = Network(<<"a", EQUALS>>, <<SPACE, "a">>, TRUE)
    /\ codec.parsed = <<codec.network>>

\* C11 as stated: with an empty (or absent) scan list every event handled
\* in the loop leaves the session running or takes it to the exit, never
\* aborts it, and leaves the registry as it was loaded.
C11_ScanFailureDegrades ==
    [][(pc = "loop" /\ networks = <<>>)
       => /\ pc' \in {"loop", "exit"}
          /\ knownNetworks' = knownNetworks]_vars

\* the last entry of the registry, the zero value when it is empty
LastKnown == IF knownNetworks = <<>> THEN ZeroNetwork ELSE knownNetworks[Len(knownNetworks)]

\* the lines of an entry for the open network ssid (no psk line), ssid
\* without double quote or backslash
OpenEntryLines(ssid) ==
    <<OpenLine, SsidPrefix \o ssid \o <<QUOTE>>, KeyMgmtPrefix \o NONE, CloseLine>>

\* the lines after the first marker line of data hold the lines of entry,
\* one after the other
SectionHolds(data, entry) ==
    LET lines == ScanLines(data)
        m == FirstMarker(lines)
    IN  /\ m # 0
        /\ \E i \in (m + 1)..(Len(lines) - Len(entry) + 1) :
               SubSeq(lines, i, i + Len(entry) - 1) = entry

\* the quit that follows the add of an open network that was not known
QuitAfterOpenAdd ==
    /\ pc = "done"
    /\ justAdded
    /\ lastEvent \in {"q", "<C-c>"}
    /\ LastKnown.psk = <<>>
    /\ ~LastKnown.security

\* C12 as stated: after the add of an open network that was not known and
\* the quit that follows, the save reports "changed" and the section of the
\* file holds an entry for that ssid with key_mgmt=NONE and no psk line.
C12_AddOpenChanged ==
    QuitAfterOpenAdd =>
        /\ haveNewConfig
        /\ SectionHolds(file, OpenEntryLines(LastKnown.ssid))

\* C12 amended: an add on an open selection that is not known appends
\* Network{ssid, no psk, security false} to the registry and stays in
\* Browsing; after the quit that follows, the section of the file holds an
\* entry for that ssid with key_mgmt=NONE and no psk line, and the save
\* reports "changed" unless the regenerated content is what the file held
\* already.
C12_AddOpen ==
    /\ [][(/\ Browsing /\ lastEvent' = "a" /\ SelectedInRange
           /\ ~selectedNet.security
           /\ ~Contains(knownNetworks, selectedNet.ssid))
          => /\ knownNetworks' =
                    Append(knownNetworks, Network(selectedNet.ssid, <<>>, FALSE))
             /\ Browsing'
             /\ justAdded']_vars
    /\ [](QuitAfterOpenAdd =>
            /\ SectionHolds(file, OpenEntryLines(LastKnown.ssid))
            /\ haveNewConfig \/ newContent(file0, knownNetworks) = oldContent(file0))

\* C12 witness: the open network a was added behind b, the user quit and
\* the save wrote the file
C12_Witness ==
    /\ QuitAfterOpenAdd
    /\ haveNewConfig
    /\ Len(knownNetworks) = 2
    /\ LastKnown = ScanA

\* C13 as stated: in every state of a session, whatever generated section
\* the registry was parsed from, no two registry entries have the same
\* ssid.
C13_SsidKeyedSet ==
    \A i, j \in 1..Len(knownNetworks) :
        i # j => knownNetworks[i].ssid # knownNetworks[j].ssid

\* C14: a delete event on a selection whose ssid the registry does not hold
\* leaves the registry (entries and order), the mode, the cursor, the
\* password buffer, the rows with their known marks and the file as they
\* were.
C14_DeleteUnknownNoop ==
    [][(/\ Browsing /\ lastEvent' = "x" /\ SelectedInRange
        /\ ~Contains(knownNetworks, selectedNet.ssid))
       => /\ knownNetworks' = knownNetworks
          /\ Rows' = Rows
          /\ Browsing'
          /\ SelectedRow' = SelectedRow
          /\ password' = password
          /\ file' = file]_vars

\* C14 witness: delete was pressed on the scanned network b while the
\* registry held only a, as loaded from the file
C14_Witness ==
    /\ Browsing
    /\ lastEvent = "x"
    /\ SelectedInRange
    /\ selectedNet.ssid = ScanB.ssid
    /\ knownNetworks = <<NetA>>
    /\ knownNetworks = loadConfFile(file0).result

\* the scan output given to listScan: its records (the empty piece behind
\* the last LF is one), the width of its SSID field, the ssid of a record
\* (empty for a record that is skipped)
ScanRecs == Tail(Split(scanner.output))
ScanSsidEnd == Index(Split(scanner.output)[1], BSSID) - 1

RecordSsid(line) ==
    IF Len(line) < ScanSsidEnd + 1 THEN <<>> ELSE Trim(SubSeq(line, 1, ScanSsidEnd))

\* record k is the first record of the output with the ssid ssid
FirstRecordOf(k, ssid) ==
    /\ RecordSsid(ScanRecs[k]) = ssid
    /\ \A j \in 1..(k - 1) : RecordSsid(ScanRecs[j]) # ssid

Ssids(nets) == [i \in 1..Len(nets) |-> nets[i].ssid]

\* C15: the list listScan returns has at most one entry per trimmed ssid
\* and no entry with an empty ssid, and each entry carries the security
\* flag of the first record, in input order, that has its ssid.
C15_ScanDedup ==
    scanner.phase = "done" =>
        LET r == scanner.result IN
        /\ \A i, j \in 1..Len(r) : i # j => r[i].ssid # r[j].ssid
        /\ \A i \in 1..Len(r) :
            /\ r[i].ssid # <<>>
            /\ \E k \in 1..Len(ScanRecs) :
                /\ FirstRecordOf(k, r[i].ssid)
                /\ r[i].security = lineSecurity(ScanRecs[k])

\* C15 witness: two records with ssid a, the second one indented and
\* without indicator, gave the one entry a with the flag of the first
C15_Witness ==
    /\ scanner.phase = "done"
    /\ Len(ScanRecs) = 3
    /\ ScanRecs[3] = <<>>
    /\ RecordSsid(ScanRecs[1]) = <<"a">>
    /\ RecordSsid(ScanRecs[2]) = <<"a">>
    /\ ScanRecs[1] # ScanRecs[2]
    /\ lineSecurity(ScanRecs[1])
    /\ ~lineSecurity(ScanRecs[2])
    /\ scanner.result = <<Network(<<"a">>, <<>>, TRUE)>>

\* the records of the output (its pieces but the one behind the last LF)
\* in the order p
ScanRecsEnded == SubSeq(ScanRecs, 1, Len(ScanRecs) - 1)
Permuted(p) == [k \in 1..Len(ScanRecsEnded) |-> ScanRecsEnded[p[k]]]

RecordOrders ==
    {p \in [1..Len(ScanRecsEnded) -> 1..Len(ScanRecsEnded)] :
        \A a, b \in 1..Len(ScanRecsEnded) : a # b => p[a] # p[b]}

\* C16: the list listScan returns is strictly ascending by ssid, and the
\* same records in any other order give the same list of ssids.
C16_ScanSorted ==
    scanner.phase = "done" =>
        LET r == scanner.result IN
        /\ \A i \in 1..(Len(r) - 1) : StrLess(r[i].ssid, r[i + 1].ssid)
        /\ ~scanner.err =>
            \A p \in RecordOrders :
                Ssids(listScan(FALSE, ScanOutput(Split(scanner.output)[1], Permuted(p))))
                    = Ssids(r)

\* C16 witness: the record of b came before the record of a
C16_Witness ==
    /\ scanner.phase = "done"
    /\ Len(ScanRecs) = 3
    /\ ScanRecs[3] = <<>>
    /\ RecordSsid(ScanRecs[1]) = <<"b">>
    /\ RecordSsid(ScanRecs[2]) = <<"a">>
    /\ Ssids(scanner.result) = << <<"a">>, <<"b">> >>

\* an indicator begins in line at or behind the end of the SSID field
IndicatorAfterSsid(line) ==
    \E p \in (ScanSsidEnd + 1)..(Len(line) - 3) :
        SubSeq(line, p, p + 3) \in {WPAMark, RSNMark}

\* C17 as stated: the security flag of an entry is true exactly when an
\* indicator (WPA< or RSN<) occurs in its record behind the SSID field;
\* text inside the SSID field does not set it.
C17_FlagAfterSsid ==
    scanner.phase = "done" =>
        LET r == scanner.result IN
        \A i \in 1..Len(r) : \A k \in 1..Len(ScanRecs) :
            FirstRecordOf(k, r[i].ssid) =>
                (r[i].security <=> IndicatorAfterSsid(ScanRecs[k]))

\* str with a backslash put before every backslash and every double quote
RECURSIVE Escaped(_)
Escaped(str) ==
    IF str = <<>> THEN <<>>
    ELSE (IF Head(str) \in {BSLASH, QUOTE} THEN <<BSLASH, Head(str)>> ELSE <<Head(str)>>)
             \o Escaped(Tail(str))

\* C18: the serialized entry of a network is the line network={, an ssid
\* line exactly when the ssid is not empty, one key_mgmt line with WPA-PSK
\* when security is set and NONE otherwise, a psk line exactly when the psk
\* is not empty, and the line }, in this order, every line ended by "\n";
\* the ssid and psk values stand between double quotes, every backslash
\* doubled and every double quote behind a backslash.
C18_EntryFormat ==
    codec.phase \in {"text", "parsed"} =>
        LET n == codec.network
            ssidLine == IF n.ssid # <<>>
                        THEN << SsidPrefix \o Escaped(n.ssid) \o <<QUOTE>> >>
                        ELSE <<>>
            keyMgmtLine == IF n.security THEN KeyMgmtPrefix \o WPAPSK
                           ELSE KeyMgmtPrefix \o NONE
            pskLine == IF n.psk # <<>>
                       THEN << PskPrefix \o Escaped(n.psk) \o <<QUOTE>> >>
                       ELSE <<>>
        IN  codec.text =
                JoinLines(<<OpenLine>> \o ssidLine \o <<keyMgmtLine>> \o pskLine
                              \o <<CloseLine>>)

\* C18 witness: the entry of a secure network without ssid whose psk is a
\* backslash and a double quote
C18_Witness ==
    /\ codec.phase = "text"
    /\ codec.network = Network(<<>>, <<BSLASH, QUOTE>>, TRUE)
    /\ codec.text =
           JoinLines(<<OpenLine, KeyMgmtPrefix \o WPAPSK,
                       PskPrefix \o <<BSLASH, BSLASH, BSLASH, QUOTE, QUOTE>>, CloseLine>>)

\* C19 as stated: unescape never aborts and has three outcomes: a value
\* that is empty or does not begin with a double quote is returned as it
\* is; one that begins with a double quote and does not end with one fails
\* with the unbalanced-quotes error; any other is returned without its first
\* and last byte, no escape sequence reversed.
C19_UnescapeTotal ==
    codec.phase = "unescaped" =>
        LET val == codec.val
            out == codec.out
        IN  /\ ~out.panic
            /\ IF val = <<>> \/ val[1] # QUOTE
               THEN ~out.err /\ out.value = val
               ELSE IF val[Len(val)] # QUOTE
               THEN out.err
               ELSE ~out.err /\ out.value = SubSeq(val, 2, Len(val) - 1)

\* C20: an add on a secure selection opens the password prompt and leaves
\* the registry alone; the buffer is empty in every Browsing state, so it
\* is empty when the prompt opens; while the prompt is open the selection
\* is a secure scan entry and no event (resize included) moves it, so the
\* network added at confirm is the one selected when add was pressed, with
\* the buffer as its psk.
C20_EnterPasswordEntry ==
    /\ [][(Browsing /\ lastEvent' = "a" /\ SelectedInRange /\ selectedNet.security)
          => /\ PasswordEntry'
             /\ password' = <<>>
             /\ knownNetworks' = knownNetworks]_vars
    /\ [](Browsing => password = <<>>)
    /\ [](PasswordEntry => SelectedInRange /\ selectedNet.security)
    /\ [][PasswordEntry => SelectedRow' = SelectedRow /\ networks' = networks]_vars
    /\ [][(/\ PasswordEntry /\ lastEvent' = "<Enter>"
           /\ ~Contains(knownNetworks, selectedNet.ssid))
          => knownNetworks' =
                 Append(knownNetworks, Network(selectedNet.ssid, password, TRUE))]_vars

\* C20 witness: the prompt was opened on b, the second row, a password was
\* typed and confirmed, and b is in the registry with it
C20_Witness ==
    /\ Browsing
    /\ lastEvent = "<Enter>"
    /\ justAdded
    /\ SelectedRow = 1
    /\ LastKnown.ssid = ScanB.ssid
    /\ LastKnown.psk # <<>>
    /\ LastKnown.security

\* the buffer buf after the key id in password mode: a one-byte id and
\* <Space> are appended, <Backspace> cuts the last byte, <C-u> empties it,
\* any other id leaves it
Edited(buf, id) ==
    IF id \in TypedChars THEN Append(buf, id)
    ELSE IF id = "<Space>" THEN Append(buf, SPACE)
    ELSE IF id = "<Backspace>" THEN SubSeq(buf, 1, Len(buf) - 1)
    ELSE IF id = "<C-u>" THEN <<>>
    ELSE buf

C22_Cancel ==
    /\ [][(PasswordEntry /\ lastEvent' \in {"<Escape>", "<C-c>"})
          => /\ Browsing'
             /\ password' = <<>>
             /\ knownNetworks' = knownNetworks
             /\ Rows' = Rows]_vars
    /\ [][(PasswordEntry /\ PasswordEntry') => knownNetworks' = knownNetworks]_vars
    /\ [][lastEvent' # "<Enter>"
          => \A i \in 1..Len(knownNetworks') :
                 knownNetworks'[i].psk # <<>>
                     => \E j \in 1..Len(knownNetworks) : knownNetworks[j] = knownNetworks'[i]]_vars
    /\ [][pc = "exit"
          => ScanLines(file') =
                 PreambleOf(file0) \o <<MarkerLineOf(file0)>> \o EntryLines(knownNetworks)]_vars

\* C22 witness: the prompt opened on b was cancelled with <Escape> while
\* the registry held a only, as loaded
C22_Witness ==
    /\ Browsing
    /\ lastEvent = "<Escape>"
    /\ SelectedInRange
    /\ selectedNet = ScanB
    /\ knownNetworks = <<NetA>>
    /\ knownNetworks = loadConfFile(file0).result

\* the key ids of the navigation cases the model presses
NavigationIds ==
    {"<Down>", "<Up>", "<C-d>", "<C-u>", "<PageDown>", "<PageUp>", "<Home>", "<End>"}

\* C23: a navigation key in Browsing leaves the mode, the password buffer,
\* the registry, the scan list, the rows and the file as they were (the
\* cursor may move); a resize, in Browsing or in the password prompt,
\* leaves the mode, the buffer, the registry, the scan list and the cursor
\* as they were.
C23_NavigationResizeFrame ==
    /\ [][(Browsing /\ lastEvent' \in NavigationIds)
          => /\ Browsing'
             /\ password' = password
             /\ knownNetworks' = knownNetworks
             /\ networks' = networks
             /\ Rows' = Rows
             /\ file' = file]_vars
    /\ [][(pc = "loop" /\ lastEvent' = "<Resize>")
          => /\ pc' = "loop"
             /\ passwordPromptVisible' = passwordPromptVisible
             /\ password' = password
             /\ knownNetworks' = knownNetworks
             /\ networks' = networks
             /\ SelectedRow' = SelectedRow
             /\ Rows' = Rows]_vars

\* C23 witness: the window was resized while the prompt was open on the
\* second row with a password typed
C23_Witness ==
    /\ PasswordEntry
    /\ lastEvent = "<Resize>"
    /\ SelectedRow = 1
    /\ password # <<>>

\* C24: after the first render and after every handled event the list has
\* one row per scan entry, row i shows scan entry i, with the known mark
\* exactly when the registry holds its ssid and with the security label
\* exactly when its flag is set; the cursor is on a row of the scan list
\* whenever that list is not empty.
C24_DisplayConsistent ==
    pc = "loop" =>
        /\ Len(Rows) = Len(networks)
        /\ \A i \in 1..Len(Rows) :
            /\ Rows[i].ssid = networks[i].ssid
            /\ Rows[i].mark = "+" <=> Contains(knownNetworks, networks[i].ssid)
            /\ Rows[i].mark \in {"+", " "}
            /\ Rows[i].security = "WPA" <=> networks[i].security
            /\ Rows[i].security \in {"WPA", ""}
        /\ networks # <<>> => SelectedInRange

\* C24 witness: a was deleted while b stayed known: the first row lost its
\* mark, the second kept it
C24_Witness ==
    /\ Browsing
    /\ lastEvent = "x"
    /\ Len(Rows) = 2
    /\ Rows[1].mark = " "
    /\ Rows[2].mark = "+"
    /\ Contains(loadConfFile(file0).result, ScanA.ssid)

\* the run is over
Ended == pc \in {"done", "aborted"}

\* C25: the restart command runs at most once in a run; when it runs, the
\* save has reported "changed", the file holds the content the save wrote
\* and the -r option is set; the command leaves the file alone and the run
\* ends as it would have, whether the command fails or not; a run whose
\* save reported "unchanged", or without -r, ends without a restart.
C25_RestartOrdering ==
    /\ [](restarts <= 1)
    /\ [][restarts' # restarts
          => /\ restarts' = restarts + 1
             /\ haveNewConfig /\ restartNetwork
             /\ writes = 1
             /\ file = newContent(file0, knownNetworks)
             /\ file' = file
             /\ pc' = (IF pc = "restart" THEN "done" ELSE "aborted")]_vars
    /\ [](Ended => (restarts = 1 <=> (haveNewConfig /\ restartNetwork)))
    /\ [](restartErr => restarts = 1)

\* C25 witness: the run ended normally after a save that wrote the file
\* and a restart command that failed
C25_Witness ==
    /\ pc = "done"
    /\ restarts = 1
    /\ restartErr
    /\ haveNewConfig
    /\ file # file0

\* C26 as stated: with another writer, the save decides "changed" against
\* the content read when the run started and, when it writes, the file is
\* the startup preamble, the marker and the serialized registry.
C26_SaveAgainstStartup ==
    Saved =>
        /\ haveNewConfig <=> newContent(file0, knownNetworks) # oldContent(file0)
        /\ haveNewConfig => file = newContent(file0, knownNetworks)

\* C26 amended: the save reads the file again: it decides "changed"
\* against the content the file holds at that moment and, when it writes,
\* the file is the preamble and marker line the file holds at that moment
\* (a line another writer put before the marker is kept) followed by the
\* entries of the registry, which was loaded at startup and edited in the
\* session (what another writer put behind the marker is lost); when it
\* reports "unchanged" the file is left as the other writer left it.
C26_SaveAgainstCurrent ==
    [][(pc \in {"exit", "panic"})
       => (/\ haveNewConfig' <=> newContent(file, knownNetworks) # oldContent(file)
           /\ haveNewConfig' =>
                 /\ file' = JoinLines(ScanLines(file'))
                 /\ ScanLines(file') =
                        PreambleOf(file) \o <<MarkerLineOf(file)>> \o EntryLines(knownNetworks)
           /\ ~haveNewConfig' => file' = file)]_vars

\* C26 witness: the save wrote the file after another writer had put a
\* line before its first line; the line is in the written file and the
\* section holds the registry
C26_Witness ==
    /\ pc = "done"
    /\ haveNewConfig
    /\ knownNetworks # <<>>
    /\ PreambleOf(file) = <<SubSeq(ExternalLine, 1, 3)>> \o PreambleOf(file0)

\* C27 as stated: an event handled in PasswordEntry never ends the event
\* loop ("q" is appended to the buffer, Ctrl-C closes the prompt), so the
\* deferred save only ever starts with the prompt closed and the buffer
\* empty, and a cancelled entry leaves the registry as it was.
C27_ExitOnlyFromBrowsing ==
    [][/\ PasswordEntry => pc' = "loop"
       /\ (PasswordEntry /\ lastEvent' = "q") => password' = password \o <<"q">>
       /\ (PasswordEntry /\ lastEvent' = "<C-c>")
             => ~passwordPromptVisible' /\ knownNetworks' = knownNetworks
       /\ (pc \in {"exit", "panic"})
             => ~passwordPromptVisible /\ password = <<>>]_vars

\* no two entries of nets have the same ssid
UniqueSsids(nets) ==
    \A i, j \in 1..Len(nets) : nets[i].ssid = nets[j].ssid => i = j

\* nets without its last entry
Front(nets) == IF nets = <<>> THEN <<>> ELSE SubSeq(nets, 1, Len(nets) - 1)

\* the event adds the selected network: "a" on an open one, <Enter> in the
\* password prompt for a secure one
AddsSelected ==
    \/ Browsing /\ lastEvent' = "a" /\ SelectedInRange /\ ~selectedNet.security
    \/ PasswordEntry /\ lastEvent' = "<Enter>" /\ SelectedInRange

\* C28: on a registry R of unique ssids that lacks the selected ssid, the
\* add (direct for an open network, by <Enter> in the prompt for a secure
\* one) puts one entry of that ssid behind the entries of R, and an "x"
\* as the next event goes on with exactly R, the same entries in the same
\* order; the save is a function of the file and the registry, so a quit
\* that follows writes what a quit on R writes.
C28_AddDeleteCancels ==
    [][/\ (AddsSelected /\ UniqueSsids(knownNetworks)
              /\ ~Contains(knownNetworks, selectedNet.ssid))
          => /\ pc' = "loop"
             /\ Front(knownNetworks') = knownNetworks
             /\ Len(knownNetworks') = Len(knownNetworks) + 1
             /\ knownNetworks'[Len(knownNetworks')].ssid = selectedNet.ssid
             /\ justAdded'
       /\ (justAdded /\ Browsing /\ lastEvent' = "x" /\ UniqueSsids(Front(knownNetworks)))
          => /\ pc' = "loop"
             /\ knownNetworks' = Front(knownNetworks)
             /\ updateConfFile(file, knownNetworks')
                    = updateConfFile(file, Front(knownNetworks))]_vars

\* C28 witness: an "x" has followed the add of a network to a registry of
\* one entry; the session goes on and the registry lacks the selected ssid
C28_Witness ==
    /\ justUndone
    /\ pc = "loop"
    /\ Len(knownNetworks) = 1
    /\ SelectedInRange
    /\ ~Contains(knownNetworks, selectedNet.ssid)

\* C29 as stated: whatever lines follow the marker, loadConfFile reads the
\* file to its end and returns a registry: no started run has stopped in
\* the load.
C29_LoadTotal ==
    /\ ~loadConfFile(file0).panic
    /\ pc # "fatal"

====
